---- MODULE Spec2Model ----
(***************************************************************************)
(* Model of the SIM868 driver PicoSimcom868 (src/pico_simcom868.py).       *)
(*                                                                         *)
(* Text is modelled as a sequence of one-character strings, so that the    *)
(* substring tests, the comma split and the framing heuristic are computed  *)
(* character by character as the Python code computes them.  The UART and   *)
(* the power pin are the environment: every read of the UART draws what     *)
(* the link reports (txdone) and the bytes it yields from a small set.      *)
(***************************************************************************)
EXTENDS Integers, Sequences, FiniteSets, TLC

(***************************************************************************)
(* Bounds of the model.                                                    *)
(***************************************************************************)
\* largest attempts_number passed to get_gps_data
MaxAttempts == 3
\* largest attempt_wait_time passed to get_gps_data
MaxWait == 1
\* polls of get_text_messages that are followed
MaxPolls == 2
\* longest text given to parse_serial_raw_data on its own
MaxTextLen == 4
\* nested calls the interpreter allows before it raises RuntimeError
\* (maximum recursion depth exceeded)
MaxRecursionDepth == 3

(***************************************************************************)
(* Fixed waits of the driver, in time units.                               *)
(***************************************************************************)
\* hold time of the power pin pulse
PulseHold == 1
\* settle time after the pulse
PowerSettle == 3
\* default time_to_wait of send_command
DefaultWait == 1
\* acknowledgement window of AT+CGNSPWR
GpsPowerWait == 5
\* cold-fix settle window of set_gps_on
GpsSettleTime == 30
\* response window of AT+CGNSINF
GpsInfoWait == 10
\* poll interval of get_text_messages
PollWait == 1
\* response window of the first AT+HTTPACTION of http_post
HttpActionWait == 3
\* wait of http_post after the upload
HttpUploadWait == 11
\* wait of http_post before AT+HTTPTERM
HttpTermWait == 10
\* modem.py: default attempts_number and attempt_wait_time of get_gps_data,
\* wait after AT+CGNSINF
ModemDefaultAttempts == 5
ModemDefaultWait == 5
ModemGpsInfoWait == 10

(***************************************************************************)
(* Python values.                                                          *)
(***************************************************************************)
\* Python's None, and a present string value
None == [some |-> FALSE, str |-> <<>>]
Some(s) == [some |-> TRUE, str |-> s]

\* how a call ends: a returned value or a raised exception
Ret(v) == [kind |-> "return", exc |-> "", val |-> v]
Raise(e) == [kind |-> "raise", exc |-> e, val |-> None]
NoOutcome == [kind |-> "none", exc |-> "", val |-> None]

\* the optional force_state argument of change_module_power_state
NoForce == [given |-> FALSE, state |-> FALSE]
Force(b) == [given |-> TRUE, state |-> b]

(***************************************************************************)
(* Text constants of the driver and of the device's replies.               *)
(***************************************************************************)
CR == <<"\r">>
LF == <<"\n">>
FourCommas == <<",", ",", ",", ",">>
AT == <<"A", "T">>
OK == <<"O", "K">>
ERROR == <<"E", "R", "R", "O", "R">>
AT_CGNSINF == <<"A", "T", "+", "C", "G", "N", "S", "I", "N", "F">>
AT_CGNSPWR_1 == <<"A", "T", "+", "C", "G", "N", "S", "P", "W", "R", "=", "1">>
AT_CGNSPWR_0 == <<"A", "T", "+", "C", "G", "N", "S", "P", "W", "R", "=", "0">>
Quote == <<"\"">>
\* the control byte 0x1A, written as one character
CtrlZ == <<"^Z">>
Digits == <<"0", "1", "2", "3", "4", "5", "6", "7", "8", "9">>
AT_CSQ == <<"A", "T", "+", "C", "S", "Q">>
CsqPrefix == <<"+", "C", "S", "Q", ":", " ">>
CmtiPrefix == <<"+", "C", "M", "T", "I">>
AT_CMGF_1 == <<"A", "T", "+", "C", "M", "G", "F", "=", "1">>
AT_CSCS_GSM == <<"A", "T", "+", "C", "S", "C", "S", "=", "\"", "G", "S", "M", "\"">>
AT_CMGS == <<"A", "T", "+", "C", "M", "G", "S", "=", "\"">>
AT_SAPBR_CONTYPE == <<"A", "T", "+", "S", "A", "P", "B", "R", "=", "3", ",", "1", ",", "\"", "C", "O", "N", "T", "Y", "P", "E", "\"", ",", "\"", "G", "P", "R", "S", "\"">>
AT_SAPBR_APN == <<"A", "T", "+", "S", "A", "P", "B", "R", "=", "3", ",", "1", ",", "\"", "A", "P", "N", "\"", ",", "\"">>
AT_SAPBR_USER == <<"A", "T", "+", "S", "A", "P", "B", "R", "=", "3", ",", "1", ",", "\"", "U", "S", "E", "R", "\"", ",", "\"">>
AT_SAPBR_PWD == <<"A", "T", "+", "S", "A", "P", "B", "R", "=", "3", ",", "1", ",", "\"", "P", "W", "D", "\"", ",", "\"">>
AT_SAPBR_2 == <<"A", "T", "+", "S", "A", "P", "B", "R", "=", "2", ",", "1">>
AT_SAPBR_1 == <<"A", "T", "+", "S", "A", "P", "B", "R", "=", "1", ",", "1">>
AT_HTTPINIT == <<"A", "T", "+", "H", "T", "T", "P", "I", "N", "I", "T">>
AT_HTTPSSL_1 == <<"A", "T", "+", "H", "T", "T", "P", "S", "S", "L", "=", "1">>
AT_HTTPPARA_CID == <<"A", "T", "+", "H", "T", "T", "P", "P", "A", "R", "A", "=", "\"", "C", "I", "D", "\"", ",", "1">>
AT_HTTPPARA_URL == <<"A", "T", "+", "H", "T", "T", "P", "P", "A", "R", "A", "=", "\"", "U", "R", "L", "\"", ",", "\"">>
AT_HTTPACTION_1 == <<"A", "T", "+", "H", "T", "T", "P", "A", "C", "T", "I", "O", "N", "=", "1">>
AT_HTTPDATA == <<"A", "T", "+", "H", "T", "T", "P", "D", "A", "T", "A", "=">>
\* the upload length and the input time that http_post declares
DeclaredLength == <<"1", "5">>
UploadTimeout == <<",", "1", "0", "0", "0", "0">>
Prompt == <<">">>
AT_HTTPREAD == <<"A", "T", "+", "H", "T", "T", "P", "R", "E", "A", "D">>
AT_HTTPTERM == <<"A", "T", "+", "H", "T", "T", "P", "T", "E", "R", "M">>
\* replies of the device to AT+CSQ and its notification of a received message
CsqLine == <<"+", "C", "S", "Q", ":", " ", "1", "7", ",", "0">>
CmtiLine == <<"+", "C", "M", "T", "I", ":", " ", "\"", "S", "M", "\"", ",", "1">>
\* the two example replies of the gps_coordinates_acquired docstring
FixLine == <<"+", "C", "G", "N", "S", "I", "N", "F", ":", " ", "1", ",", "1", ",", "2", "0", "2", "3", "1", "1", "2", "2", "1", "1", "1", "0", "0", "0", ".", "0", "0", "0", ",", "5", "0", ".", "8", "8", "7", "2", "3", "2", ",", "1", "9", ".", "2", "3", "1", "5", "3", "5", ",", "1", "2", "0", ".", "4", "2", "9", ",", "0", ".", "0", "0", ",", "0", ".", "0", ",", "1", ",", ",", "1", ".", "0", ",", "1", ".", "4", ",", "0", ".", "9", ",", ",", "1", "4", ",", "7", ",", "5", ",", ",", "3", "1", ",", ",">>
NoFixLine == <<"+", "C", "G", "N", "S", "I", "N", "F", ":", " ", "0", ",", ",", ",", ",", ",", ",", ",", ",", ",", ",", ",", ",", ",", ",", ",", ",", ",", ",", ",", ",">>
\* a reply without ',,,,' whose latitude and longitude fields are empty
EmptyCoordinatesLine == <<"+", "C", "G", "N", "S", "I", "N", "F", ":", " ",
  "1", ",", "1", ",", "2", "0", "2", "3", "1", "1", "2", "2", "1", "1", "1",
  "0", "0", "0", ".", "0", "0", "0", ",", ",", ",", "1", "2", "0", ".", "4",
  "2", "9">>

(***************************************************************************)
(* Python string operations, computed on character sequences.              *)
(***************************************************************************)
\* sub in s
Contains(sub, s) ==
  \E i \in 0..(Len(s) - Len(sub)) : SubSeq(s, i + 1, i + Len(sub)) = sub

\* s.count(c) for a single character c
Count(c, s) == Cardinality({i \in 1..Len(s) : s[i] = c})

\* s.replace(c, "") for a single character c
Remove(c, s) == SelectSeq(s, LAMBDA x : x # c)

\* position of the first c in s, or Len(s) + 1 when there is none
FirstIndex(c, s) ==
  LET at == {i \in 1..Len(s) : s[i] = c}
  IN IF at = {} THEN Len(s) + 1
     ELSE CHOOSE i \in at : \A j \in at : i <= j

\* s.split(c) for a single character c: the list of the segments between the c's
RECURSIVE Split(_, _)
Split(s, c) ==
  LET i == FirstIndex(c, s)
  IN IF i > Len(s) THEN <<s>>
     ELSE <<SubSeq(s, 1, i - 1)>> \o Split(SubSeq(s, i + 1, Len(s)), c)

\* s.startswith(prefix)
StartsWith(prefix, s) ==
  Len(s) >= Len(prefix) /\ SubSeq(s, 1, Len(prefix)) = prefix

\* the regular expression class \d
IsDigit(c) == \E i \in 1..Len(Digits) : Digits[i] = c

\* end of the longest run of digits of s that starts at from: the position
\* of the first character that is not a digit, or Len(s) + 1
DigitsEnd(s, from) ==
  LET stop == {i \in from..Len(s) : ~IsDigit(s[i])}
  IN IF stop = {} THEN Len(s) + 1
     ELSE CHOOSE i \in stop : \A j \in stop : i <= j

(***************************************************************************)
(* The environment: what one UART read can yield.                          *)
(***************************************************************************)
\* a reply as the device frames it: command echo, then the payload line
Frame(command, payload) == command \o CR \o CR \o LF \o payload \o CR \o LF

\* what uart.read() can return: nothing, no bytes, a framed reply, or an
\* unsolicited notification
RawReads ==
  { None, Some(<<>>),
    Some(Frame(AT, OK)), Some(Frame(AT, ERROR)),
    Some(Frame(AT_CGNSINF, FixLine)), Some(Frame(AT_CGNSINF, NoFixLine)),
    Some(Frame(AT_CGNSINF, EmptyCoordinatesLine)),
    Some(Frame(AT_CSQ, CsqLine)), Some(CR \o LF \o CmtiLine \o CR \o LF) }

\* one read attempt: what uart.txdone() reports and what uart.read() would yield
Inputs ==
  { [txdone |-> FALSE, raw |-> None] } \cup
  { [txdone |-> TRUE, raw |-> r] : r \in RawReads }

(***************************************************************************)
(* State.                                                                  *)
(***************************************************************************)
VARIABLES
  pc,                  \* "new" before construction, "idle" between calls,
                       \* "get_gps_data" inside the retry loop, "dead" when
                       \* construction raised
  module_power_state,  \* self.module_power_state
  gps_power_state,     \* self.gps_power_state
  last_command,        \* self.last_command
  power_pin,           \* level of self.power_pin
  phys_power,          \* physical power state of the module (environment)
  op,                  \* the call in progress, or the last one completed
  args,                \* the arguments of that call
  attempt,             \* loop iterations of get_gps_data or get_text_messages
                       \* started so far; statements of a straight-line
                       \* method done so far
  responses,           \* get_gps_data: outcome of every send_command of the
                       \* call, in order; other calls: of the latest one
  trace,               \* pin, UART and sleep events of the call, in order
  outcome,             \* how the call ended
  pre,                 \* the power booleans and the physical power state at
                       \* the start of the call
  prev_toggle          \* for a change_module_power_state call: whether the
                       \* call completed before it was one too, made without
                       \* force_state, and the module_power_state that one
                       \* started from

vars == <<pc, module_power_state, gps_power_state, last_command, power_pin,
          phys_power, op, args, attempt, responses, trace, outcome, pre,
          prev_toggle>>

\* src/pico_simcom868.py:6 to_bytes: UTF-8 encoding of the ASCII command text
to_bytes(given) == given

(***************************************************************************)
(* Transport.                                                              *)
(***************************************************************************)
\* a framing that keeps the segment before the first newline
parse_serial_raw_data_echo(data) ==
  IF ~data.some THEN data
  ELSE LET decoded_data == data.str
           middle == IF Count("\n", decoded_data) = 2
                     THEN Split(decoded_data, "\n")[1]
                     ELSE decoded_data
       IN Some(Remove("\n", Remove("\r", middle)))

\* parse_serial_raw_data: framing heuristic and line trimming
parse_serial_raw_data(data) ==
  IF ~data.some THEN data
  ELSE LET decoded_data == data.str
           middle == IF Count("\n", decoded_data) = 2
                     THEN Split(decoded_data, "\n")[2]
                     ELSE decoded_data
       IN Some(Remove("\n", Remove("\r", middle)))

\* a read_uart_response that reads whatever the link reports
may_read_always(txdone) == TRUE

\* the link state that lets read_uart_response read
may_read(txdone) == txdone

\* read_uart_response: read only when the link reports transmission complete
read_uart_response(in) ==
  IF may_read(in.txdone)
  THEN [events |-> << <<"txdone", in.txdone>>, <<"read", 0>> >>,
        res |-> IF in.raw.some /\ Len(in.raw.str) > 0
                THEN Ret(parse_serial_raw_data(in.raw))
                ELSE Ret(None)]
  ELSE [events |-> << <<"txdone", in.txdone>> >>,
        res |-> Raise("Exception")]

(***************************************************************************)
(* Command session.                                                        *)
(***************************************************************************)
\* a send_command that writes without flushing
send_command_no_flush(command, time_to_wait, add_execute_command_string, in) ==
  LET cmd == IF add_execute_command_string THEN command \o CR ELSE command
      rd == read_uart_response(in)
  IN [last_command |-> Some(cmd),
      events |-> << <<"write", to_bytes(cmd)>>,
                    <<"sleep", time_to_wait>> >> \o rd.events,
      res |-> rd.res]

\* send_command: record, flush, write, wait, read
send_command(command, time_to_wait, add_execute_command_string, in) ==
  LET cmd == IF add_execute_command_string THEN command \o CR ELSE command
      rd == read_uart_response(in)
  IN [last_command |-> Some(cmd),
      events |-> << <<"flush", 0>>, <<"write", to_bytes(cmd)>>,
                    <<"sleep", time_to_wait>> >> \o rd.events,
      res |-> rd.res]

\* what send_command_and_check_response does on a mismatch
on_mismatch(raise_exception) ==
  IF raise_exception THEN Raise("IncorrectCommandOutput") ELSE Ret(TRUE)

\* send_command_and_check_response: `expected_response in command_response`
\* raises TypeError when command_response is None
send_command_and_check_response(command, expected_response, add_execute_command_string, time_to_wait, raise_exception, in) ==
  LET sc == send_command(command, time_to_wait, add_execute_command_string, in)
  IN [last_command |-> sc.last_command,
      events |-> sc.events,
      res |-> IF sc.res.kind = "raise" THEN sc.res
              ELSE IF ~sc.res.val.some THEN Raise("TypeError")
              ELSE IF Contains(expected_response, sc.res.val.str) THEN Ret(TRUE)
              ELSE on_mismatch(raise_exception)]

\* get_echo: permissive check of the AT probe
get_echo(in) ==
  send_command_and_check_response(AT, OK, TRUE, DefaultWait, FALSE, in)

(***************************************************************************)
(* Power controller.                                                       *)
(***************************************************************************)
\* a toggle that switches on instead of flipping
new_module_power_state_on(current, force) ==
  IF force.given THEN force.state ELSE TRUE

\* the remembered state change_module_power_state leaves
new_module_power_state(current, force) ==
  IF force.given THEN force.state ELSE ~current

\* change_module_power_state: one pulse of the pin, then the remembered state
change_module_power_state(current, physical, force) ==
  [module_power_state |-> new_module_power_state(current, force),
   phys_power |-> ~physical,
   power_pin |-> 0,
   events |-> << <<"pin", 1>>, <<"sleep", PulseHold>>, <<"pin", 0>>,
                 <<"sleep", PowerSettle>> >>]

(***************************************************************************)
(* GPS acquisition.                                                        *)
(***************************************************************************)
\* a set_gps_on that pays the settle wait on every call
settle_wait_always(gps_on) == << <<"sleep", GpsSettleTime>> >>

\* the settle wait of set_gps_on: only when the GNSS was remembered as off
settle_wait(gps_on) ==
  IF gps_on THEN <<>> ELSE << <<"sleep", GpsSettleTime>> >>

\* set_gps_on: power-on command, settle wait, remembered state on
set_gps_on(gps_on, in) ==
  LET sc == send_command(AT_CGNSPWR_1, GpsPowerWait, TRUE, in)
  IN IF sc.res.kind = "raise"
     THEN [last_command |-> sc.last_command, events |-> sc.events,
           gps_power_state |-> gps_on, res |-> sc.res]
     ELSE [last_command |-> sc.last_command,
           events |-> sc.events \o settle_wait(gps_on),
           gps_power_state |-> TRUE, res |-> sc.res]

\* set_gps_off: power-off command, remembered state off
set_gps_off(gps_on, in) ==
  LET sc == send_command(AT_CGNSPWR_0, GpsPowerWait, TRUE, in)
  IN IF sc.res.kind = "raise"
     THEN [last_command |-> sc.last_command, events |-> sc.events,
           gps_power_state |-> gps_on, res |-> sc.res]
     ELSE [last_command |-> sc.last_command, events |-> sc.events,
           gps_power_state |-> FALSE, res |-> sc.res]

\* GpsData.__init__
GpsData(latitude, longitude, datetime, altitude) ==
  [latitude |-> latitude, longitude |-> longitude,
   datetime |-> datetime, altitude |-> altitude]

\* list[k] with Python's 0-based index
Item(list, k) == list[k + 1]

\* a classification that takes a line for a fix only when it has the six
\* fields the GpsData construction reads
gps_coordinates_acquired_layout(command_response) ==
  IF ~command_response.some THEN Raise("TypeError")
  ELSE Ret(/\ ~Contains(FourCommas, command_response.str)
           /\ Len(Split(command_response.str, ",")) > 5)

\* gps_coordinates_acquired: `',,,,' not in command_response` is evaluated
\* first and raises TypeError when command_response is None
gps_coordinates_acquired(command_response) ==
  IF ~command_response.some THEN Raise("TypeError")
  ELSE Ret(~Contains(FourCommas, command_response.str))

\* a parser that takes latitude and longitude from each other's field
fix_fields_swapped(split_gps_command_response) ==
  GpsData(Item(split_gps_command_response, 4),
          Item(split_gps_command_response, 3),
          Item(split_gps_command_response, 2),
          Item(split_gps_command_response, 5))

\* the GpsData built from the comma split of a fix line
fix_fields(split_gps_command_response) ==
  GpsData(Item(split_gps_command_response, 3),
          Item(split_gps_command_response, 4),
          Item(split_gps_command_response, 2),
          Item(split_gps_command_response, 5))

\* largest index the GpsData construction reads
largest_index == 5

\* a loop that runs one iteration too many
attempts_left_one_more(done, n) == done <= n

\* `for _ in range(attempts_number)`: is there another iteration
attempts_left(done, n) == done < n

\* a loop body whose retry wait grows by a second
get_gps_data_iteration_backoff(wait_time, in) ==
  LET sc == send_command(AT_CGNSINF, GpsInfoWait, TRUE, in)
      acquired == gps_coordinates_acquired(sc.res.val)
      split_gps_command_response == Split(sc.res.val.str, ",")
  IN [last_command |-> sc.last_command,
      response |-> sc.res,
      events |-> IF sc.res.kind = "return" /\ acquired.kind = "return"
                    /\ ~acquired.val
                 THEN sc.events \o << <<"sleep", wait_time + 1>> >>
                 ELSE sc.events,
      res |-> IF sc.res.kind = "raise" THEN sc.res
              ELSE IF acquired.kind = "raise" THEN acquired
              ELSE IF ~acquired.val THEN NoOutcome
              ELSE IF Len(split_gps_command_response) <= largest_index
                   THEN Raise("IndexError")
              ELSE Ret(fix_fields(split_gps_command_response))]

\* one iteration of the loop of get_gps_data; res.kind = "none" when the
\* loop goes on
get_gps_data_iteration(wait_time, in) ==
  LET sc == send_command(AT_CGNSINF, GpsInfoWait, TRUE, in)
      acquired == gps_coordinates_acquired(sc.res.val)
      split_gps_command_response == Split(sc.res.val.str, ",")
  IN [last_command |-> sc.last_command,
      response |-> sc.res,
      events |-> IF sc.res.kind = "return" /\ acquired.kind = "return"
                    /\ ~acquired.val
                 THEN sc.events \o << <<"sleep", wait_time>> >>
                 ELSE sc.events,
      res |-> IF sc.res.kind = "raise" THEN sc.res
              ELSE IF acquired.kind = "raise" THEN acquired
              ELSE IF ~acquired.val THEN NoOutcome
              ELSE IF Len(split_gps_command_response) <= largest_index
                   THEN Raise("IndexError")
              ELSE Ret(fix_fields(split_gps_command_response))]

(***************************************************************************)
(* Signal quality and incoming messages.                                   *)
(***************************************************************************)
\* re.search(r"\+CSQ: (\d*),\d*", response).group(1): the digits between the
\* leftmost "+CSQ: " that a run of digits and a comma follow, and that comma;
\* group() of no match raises AttributeError
csq_search(response) ==
  LET found == {p \in 1..Len(response) :
                  /\ p + Len(CsqPrefix) <= Len(response)
                  /\ SubSeq(response, p, p + Len(CsqPrefix) - 1) = CsqPrefix
                  /\ DigitsEnd(response, p + Len(CsqPrefix)) <= Len(response)
                  /\ response[DigitsEnd(response, p + Len(CsqPrefix))] = ","}
      first == CHOOSE p \in found : \A q \in found : p <= q
  IN IF found = {} THEN Raise("AttributeError")
     ELSE Ret(Some(SubSeq(response, first + Len(CsqPrefix),
                          DigitsEnd(response, first + Len(CsqPrefix)) - 1)))

\* get_gsm_signal_quality: AT+CSQ, then the search in the response;
\* re.search raises TypeError when the response is None
get_gsm_signal_quality(in) ==
  LET sc == send_command(AT_CSQ, DefaultWait, TRUE, in)
  IN [last_command |-> sc.last_command,
      events |-> sc.events,
      response |-> sc.res,
      res |-> IF sc.res.kind = "raise" THEN sc.res
              ELSE IF ~sc.res.val.some THEN Raise("TypeError")
              ELSE csq_search(sc.res.val.str)]

\* one iteration of the loop of get_text_messages; res.kind = "none" when
\* the loop goes on.  len(response) raises TypeError when response is None;
\* response is a string, so response[0] and response[1] are single
\* characters: the searches in them match nothing and group() raises
\* AttributeError
get_text_messages_iteration(in) ==
  LET rd == read_uart_response(in)
      response == rd.res.val.str
      res == IF rd.res.kind = "raise" THEN rd.res
             ELSE IF ~rd.res.val.some THEN Raise("TypeError")
             ELSE IF Len(response) > 0
                     /\ StartsWith(CmtiPrefix, <<Item(response, 0)>>)
                  THEN Raise("AttributeError")
             ELSE IF Len(response) = 3 THEN Raise("AttributeError")
             ELSE NoOutcome
  IN [events |-> IF res.kind = "none"
                 THEN rd.events \o << <<"sleep", PollWait>> >>
                 ELSE rd.events,
      response |-> rd.res,
      res |-> res]

(***************************************************************************)
(* Messaging and HTTP session: straight-line methods, given as the list of  *)
(* their statements.                                                       *)
(***************************************************************************)
\* the statement self.send_command(command, time_to_wait, add_execute_...)
Send(command, time_to_wait, add_execute_command_string) ==
  [kind |-> "send", command |-> command, time_to_wait |-> time_to_wait,
   add_execute_command_string |-> add_execute_command_string]

\* the statement utime.sleep(seconds)
Sleep(seconds) ==
  [kind |-> "sleep", command |-> <<>>, time_to_wait |-> seconds,
   add_execute_command_string |-> FALSE]

\* a send_text_message that terminates the message body as a command line
send_text_message_terminated(number, message) ==
  << Send(AT_CMGF_1, DefaultWait, TRUE),
     Send(AT_CSCS_GSM, DefaultWait, TRUE),
     Send(AT_CMGS \o number \o Quote, DefaultWait, TRUE),
     Send(message \o CR \o CtrlZ, DefaultWait, TRUE) >>

\* send_text_message
send_text_message(number, message) ==
  << Send(AT_CMGF_1, DefaultWait, TRUE),
     Send(AT_CSCS_GSM, DefaultWait, TRUE),
     Send(AT_CMGS \o number \o Quote, DefaultWait, TRUE),
     Send(message \o CR \o CtrlZ, DefaultWait, FALSE) >>

\* `if value:` for an optional string argument
Truthy(value) == value.some /\ Len(value.str) > 0

\* initialize_http
initialize_http(apn, apn_address, apn_user, apn_password) ==
  << Send(AT_SAPBR_CONTYPE, DefaultWait, TRUE),
     Send(AT_SAPBR_APN \o apn \o Quote, DefaultWait, TRUE) >>
  \o (IF Truthy(apn_address)
      THEN << Send(AT_SAPBR_APN \o apn_address.str \o Quote, DefaultWait, TRUE) >>
      ELSE <<>>)
  \o (IF Truthy(apn_user)
      THEN << Send(AT_SAPBR_USER \o apn_user.str \o Quote, DefaultWait, TRUE) >>
      ELSE <<>>)
  \o (IF Truthy(apn_password)
      THEN << Send(AT_SAPBR_PWD \o apn_password.str \o Quote, DefaultWait, TRUE) >>
      ELSE <<>>)
  \o << Send(AT_SAPBR_2, DefaultWait, TRUE),
        Send(AT_SAPBR_1, DefaultWait, TRUE),
        Send(AT_HTTPINIT, DefaultWait, TRUE),
        Send(AT_HTTPSSL_1, DefaultWait, TRUE),
        Send(AT_HTTPPARA_CID, DefaultWait, TRUE) >>

\* http_post; str(data) of a string is the string
http_post(url, data) ==
  << Send(AT_HTTPPARA_URL \o url \o Quote, DefaultWait, TRUE),
     Send(AT_HTTPACTION_1, HttpActionWait, TRUE),
     Send(AT_HTTPDATA \o DeclaredLength \o UploadTimeout, DefaultWait, TRUE),
     Send(data.str \o Prompt, DefaultWait, FALSE),
     Send(CR \o CtrlZ, DefaultWait, FALSE),
     Sleep(HttpUploadWait),
     Send(AT_HTTPREAD, DefaultWait, TRUE),
     Send(AT_HTTPACTION_1, DefaultWait, TRUE),
     Sleep(HttpTermWait),
     Send(AT_HTTPTERM, DefaultWait, TRUE) >>

\* the statements of the straight-line method called with arguments a
statements(name, a) ==
  CASE name = "send_text_message" -> send_text_message(a.number, a.message)
    [] name = "initialize_http" ->
         initialize_http(a.apn, a.apn_address, a.apn_user, a.apn_password)
    [] name = "http_post" -> http_post(a.url, a.data)
    [] OTHER -> <<>>

\* what the method returns after its last statement: send_text_message the
\* response of its last send_command, the other two nothing
returned(name, response) ==
  IF name = "send_text_message" THEN Ret(response) ELSE Ret(None)

\* the sleep statements that directly follow statement k of a method
sleeps_after(stmts, k) ==
  LET next_send == {i \in (k + 1)..Len(stmts) : stmts[i].kind = "send"}
      upto == IF next_send = {} THEN Len(stmts)
              ELSE (CHOOSE i \in next_send : \A j \in next_send : i <= j) - 1
  IN [i \in 1..(upto - k) |-> <<"sleep", stmts[k + i].time_to_wait>>]

(***************************************************************************)
(* Initial state: before the driver object is constructed.                 *)
(***************************************************************************)
NoArgs == [force_state |-> NoForce, attempts_number |-> 0,
           attempt_wait_time |-> 0, raise_exception |-> FALSE,
           add_execute_command_string |-> TRUE,
           data |-> None, number |-> <<>>, message |-> <<>>, url |-> <<>>,
           apn |-> <<>>, apn_address |-> None, apn_user |-> None,
           apn_password |-> None]

Init ==
  /\ pc = "new"
  /\ module_power_state = FALSE
  /\ gps_power_state = FALSE
  /\ last_command = None
  /\ power_pin = 0
  /\ phys_power \in BOOLEAN
  /\ op = "none"
  /\ args = NoArgs
  /\ attempt = 0
  /\ responses = <<>>
  /\ trace = <<>>
  /\ outcome = NoOutcome
  /\ pre = [module_power_state |-> FALSE, gps_power_state |-> FALSE,
            phys_power |-> phys_power]
  /\ prev_toggle = [unforced |-> FALSE, module_before |-> FALSE]

\* the power booleans and the module as a call finds them
Snapshot == [module_power_state |-> module_power_state,
             gps_power_state |-> gps_power_state,
             phys_power |-> phys_power]

\* entry of a call: its name and arguments, and the snapshot
Enter(name, arguments) ==
  /\ op' = name
  /\ args' = arguments
  /\ pre' = Snapshot
  /\ prev_toggle' =
       IF /\ name = "change_module_power_state"
          /\ op = "change_module_power_state" /\ ~args.force_state.given
       THEN [unforced |-> TRUE, module_before |-> pre.module_power_state]
       ELSE [unforced |-> FALSE, module_before |-> FALSE]

(***************************************************************************)
(* Construction.                                                           *)
(***************************************************************************)
\* __init__: remembered state off, echo probe, forced toggle when it returns
PicoSimcom868_init(in) ==
  /\ pc = "new"
  /\ LET echo == get_echo(in)
         toggled == change_module_power_state(FALSE, phys_power, Force(FALSE))
     IN /\ Enter("__init__", NoArgs)
        /\ attempt' = 0
        /\ responses' = <<echo.res>>
        /\ IF echo.res.kind = "raise"
           THEN \* the exception leaves __init__: there is no instance
                /\ pc' = "dead"
                /\ module_power_state' = FALSE
                /\ last_command' = echo.last_command
                /\ trace' = echo.events
                /\ outcome' = echo.res
                /\ UNCHANGED <<gps_power_state, power_pin, phys_power>>
           ELSE /\ pc' = "idle"
                /\ IF echo.res.val
                   THEN /\ module_power_state' = toggled.module_power_state
                        /\ phys_power' = toggled.phys_power
                        /\ power_pin' = toggled.power_pin
                        /\ trace' = echo.events \o toggled.events
                   ELSE /\ module_power_state' = FALSE
                        /\ trace' = echo.events
                        /\ UNCHANGED <<phys_power, power_pin>>
                /\ gps_power_state' = FALSE
                /\ last_command' = None
                /\ outcome' = Ret(None)

(***************************************************************************)
(* Calls on the instance, each a single step.                              *)
(***************************************************************************)
ChangeModulePowerState(force) ==
  /\ pc = "idle"
  /\ LET toggled == change_module_power_state(module_power_state, phys_power,
                                              force)
     IN /\ Enter("change_module_power_state",
                 [NoArgs EXCEPT !.force_state = force])
        /\ module_power_state' = toggled.module_power_state
        /\ phys_power' = toggled.phys_power
        /\ power_pin' = toggled.power_pin
        /\ trace' = toggled.events
        /\ responses' = <<>>
        /\ outcome' = Ret(None)
        /\ attempt' = 0
        /\ UNCHANGED <<pc, gps_power_state, last_command>>

SendCommand(add_execute_command_string, in) ==
  /\ pc = "idle"
  /\ LET sc == send_command(AT, DefaultWait, add_execute_command_string, in)
     IN /\ Enter("send_command",
                 [NoArgs EXCEPT !.add_execute_command_string =
                                   add_execute_command_string])
        /\ last_command' = sc.last_command
        /\ trace' = sc.events
        /\ responses' = <<sc.res>>
        /\ outcome' = sc.res
        /\ attempt' = 0
        /\ UNCHANGED <<pc, module_power_state, gps_power_state, power_pin,
                       phys_power>>

SendCommandAndCheckResponse(raise_exception, in) ==
  /\ pc = "idle"
  /\ LET sc == send_command(AT, DefaultWait, TRUE, in)
         checked == send_command_and_check_response(AT, OK, TRUE, DefaultWait,
                                                    raise_exception, in)
     IN /\ Enter("send_command_and_check_response",
                 [NoArgs EXCEPT !.raise_exception = raise_exception])
        /\ last_command' = checked.last_command
        /\ trace' = checked.events
        /\ responses' = <<sc.res>>
        /\ outcome' = checked.res
        /\ attempt' = 0
        /\ UNCHANGED <<pc, module_power_state, gps_power_state, power_pin,
                       phys_power>>

GetEcho(in) ==
  /\ pc = "idle"
  /\ LET sc == send_command(AT, DefaultWait, TRUE, in)
         echo == get_echo(in)
     IN /\ Enter("get_echo", NoArgs)
        /\ last_command' = echo.last_command
        /\ trace' = echo.events
        /\ responses' = <<sc.res>>
        /\ outcome' = echo.res
        /\ attempt' = 0
        /\ UNCHANGED <<pc, module_power_state, gps_power_state, power_pin,
                       phys_power>>

SetGpsOn(in) ==
  /\ pc = "idle"
  /\ LET on == set_gps_on(gps_power_state, in)
     IN /\ Enter("set_gps_on", NoArgs)
        /\ last_command' = on.last_command
        /\ gps_power_state' = on.gps_power_state
        /\ trace' = on.events
        /\ responses' = <<on.res>>
        /\ outcome' = on.res
        /\ attempt' = 0
        /\ UNCHANGED <<pc, module_power_state, power_pin, phys_power>>

SetGpsOff(in) ==
  /\ pc = "idle"
  /\ LET off == set_gps_off(gps_power_state, in)
     IN /\ Enter("set_gps_off", NoArgs)
        /\ last_command' = off.last_command
        /\ gps_power_state' = off.gps_power_state
        /\ trace' = off.events
        /\ responses' = <<off.res>>
        /\ outcome' = off.res
        /\ attempt' = 0
        /\ UNCHANGED <<pc, module_power_state, power_pin, phys_power>>

(***************************************************************************)
(* get_gps_data: the call, each iteration of its loop, and its end.        *)
(***************************************************************************)
\* a get_gps_data that remembers the GNSS as on when it is entered
GetGpsData_call_powering(n, wait_time) ==
  /\ pc = "idle"
  /\ Enter("get_gps_data",
           [NoArgs EXCEPT !.attempts_number = n, !.attempt_wait_time = wait_time])
  /\ pc' = "get_gps_data"
  /\ attempt' = 0
  /\ trace' = <<>>
  /\ responses' = <<>>
  /\ outcome' = NoOutcome
  /\ gps_power_state' = TRUE
  /\ UNCHANGED <<module_power_state, last_command, power_pin, phys_power>>

GetGpsData_call(n, wait_time) ==
  /\ pc = "idle"
  /\ Enter("get_gps_data",
           [NoArgs EXCEPT !.attempts_number = n, !.attempt_wait_time = wait_time])
  /\ pc' = "get_gps_data"
  /\ attempt' = 0
  /\ trace' = <<>>
  /\ responses' = <<>>
  /\ outcome' = NoOutcome
  /\ UNCHANGED <<module_power_state, gps_power_state, last_command, power_pin,
                 phys_power>>

\* a loop that takes a transport error for one more attempt without a fix
GetGpsData_attempt_retrying(in) ==
  /\ pc = "get_gps_data"
  /\ attempts_left(attempt, args.attempts_number)
  /\ LET it == get_gps_data_iteration(args.attempt_wait_time, in)
         goes_on == it.res.kind = "none" \/ it.response.kind = "raise"
     IN /\ attempt' = attempt + 1
        /\ last_command' = it.last_command
        /\ trace' = trace \o it.events
        /\ responses' = Append(responses, it.response)
        /\ outcome' = IF goes_on THEN NoOutcome ELSE it.res
        /\ pc' = IF goes_on THEN "get_gps_data" ELSE "idle"
        /\ UNCHANGED <<module_power_state, gps_power_state, power_pin,
                       phys_power, op, args, pre, prev_toggle>>

GetGpsData_attempt(in) ==
  /\ pc = "get_gps_data"
  /\ attempts_left(attempt, args.attempts_number)
  /\ LET it == get_gps_data_iteration(args.attempt_wait_time, in)
     IN /\ attempt' = attempt + 1
        /\ last_command' = it.last_command
        /\ trace' = trace \o it.events
        /\ responses' = Append(responses, it.response)
        /\ outcome' = it.res
        /\ pc' = IF it.res.kind = "none" THEN "get_gps_data" ELSE "idle"
        /\ UNCHANGED <<module_power_state, gps_power_state, power_pin,
                       phys_power, op, args, pre, prev_toggle>>

GetGpsData_exhausted ==
  /\ pc = "get_gps_data"
  /\ ~attempts_left(attempt, args.attempts_number)
  /\ outcome' = Raise("GpsCoordinatesNotAcquired")
  /\ pc' = "idle"
  /\ UNCHANGED <<module_power_state, gps_power_state, last_command, power_pin,
                 phys_power, op, args, attempt, responses, trace, pre,
                 prev_toggle>>

GetGsmSignalQuality(in) ==
  /\ pc = "idle"
  /\ LET q == get_gsm_signal_quality(in)
     IN /\ Enter("get_gsm_signal_quality", NoArgs)
        /\ last_command' = q.last_command
        /\ trace' = q.events
        /\ responses' = <<q.response>>
        /\ outcome' = q.res
        /\ attempt' = 0
        /\ UNCHANGED <<pc, module_power_state, gps_power_state, power_pin,
                       phys_power>>

(***************************************************************************)
(* get_text_messages: the call and each iteration of its loop.             *)
(***************************************************************************)
GetTextMessages_call ==
  /\ pc = "idle"
  /\ Enter("get_text_messages", NoArgs)
  /\ pc' = "get_text_messages"
  /\ attempt' = 0
  /\ trace' = <<>>
  /\ responses' = <<>>
  /\ outcome' = NoOutcome
  /\ UNCHANGED <<module_power_state, gps_power_state, last_command, power_pin,
                 phys_power>>

GetTextMessages_poll(in) ==
  /\ pc = "get_text_messages"
  /\ attempt < MaxPolls
  /\ LET it == get_text_messages_iteration(in)
     IN /\ attempt' = attempt + 1
        /\ trace' = trace \o it.events
        /\ responses' = <<it.response>>
        /\ outcome' = it.res
        /\ pc' = IF it.res.kind = "none" THEN "get_text_messages" ELSE "idle"
        /\ UNCHANGED <<module_power_state, gps_power_state, last_command,
                       power_pin, phys_power, op, args, pre, prev_toggle>>

(***************************************************************************)
(* The straight-line methods: the call, then one send_command at a time    *)
(* with the sleeps that follow it.                                         *)
(***************************************************************************)
Straight_call(name, arguments) ==
  /\ pc = "idle"
  /\ Enter(name, arguments)
  /\ pc' = "straight"
  /\ attempt' = 0
  /\ trace' = <<>>
  /\ responses' = <<>>
  /\ outcome' = NoOutcome
  /\ UNCHANGED <<module_power_state, gps_power_state, last_command, power_pin,
                 phys_power>>

SendTextMessage_call(number, message) ==
  Straight_call("send_text_message",
                [NoArgs EXCEPT !.number = number, !.message = message])

InitializeHttp_call(apn, apn_address, apn_user, apn_password) ==
  Straight_call("initialize_http",
                [NoArgs EXCEPT !.apn = apn, !.apn_address = apn_address,
                               !.apn_user = apn_user,
                               !.apn_password = apn_password])

HttpPost_call(url, data) ==
  Straight_call("http_post", [NoArgs EXCEPT !.url = url, !.data = data])

Straight_step(in) ==
  /\ pc = "straight"
  /\ LET stmts == statements(op, args)
         st == stmts[attempt + 1]
         sc == send_command(st.command, st.time_to_wait,
                            st.add_execute_command_string, in)
         sleeps == sleeps_after(stmts, attempt + 1)
         done == attempt + 1 + Len(sleeps)
     IN /\ last_command' = sc.last_command
        /\ responses' = <<sc.res>>
        /\ IF sc.res.kind = "raise"
           THEN /\ attempt' = attempt + 1
                /\ trace' = trace \o sc.events
                /\ outcome' = sc.res
                /\ pc' = "idle"
           ELSE /\ attempt' = done
                /\ trace' = trace \o sc.events \o sleeps
                /\ outcome' = IF done = Len(stmts)
                              THEN returned(op, sc.res.val) ELSE NoOutcome
                /\ pc' = IF done = Len(stmts) THEN "idle" ELSE "straight"
        /\ UNCHANGED <<module_power_state, gps_power_state, power_pin,
                       phys_power, op, args, pre, prev_toggle>>

\* arguments the straight-line methods are called with
Numbers == { <<"+", "4", "8">> }
Messages == { <<"h", "i">> }
Apns == { <<"n", "e", "t">> }
Optionals == { None, Some(<<"x">>) }
Urls == { <<"h", ".", "i", "o">> }
Payloads == { Some(<<"d">>) }

Next ==
  \/ \E in \in Inputs : PicoSimcom868_init(in)
  \/ \E force \in {NoForce, Force(TRUE), Force(FALSE)} :
       ChangeModulePowerState(force)
  \/ \E add \in BOOLEAN, in \in Inputs : SendCommand(add, in)
  \/ \E raise_exception \in BOOLEAN, in \in Inputs :
       SendCommandAndCheckResponse(raise_exception, in)
  \/ \E in \in Inputs : GetEcho(in)
  \/ \E in \in Inputs : SetGpsOn(in)
  \/ \E in \in Inputs : SetGpsOff(in)
  \/ \E n \in 0..MaxAttempts, wait_time \in 0..MaxWait :
       GetGpsData_call(n, wait_time)
  \/ \E in \in Inputs : GetGpsData_attempt(in)
  \/ GetGpsData_exhausted
  \/ \E in \in Inputs : GetGsmSignalQuality(in)
  \/ GetTextMessages_call
  \/ \E in \in Inputs : GetTextMessages_poll(in)
  \/ \E number \in Numbers, message \in Messages :
       SendTextMessage_call(number, message)
  \/ \E apn \in Apns, apn_address \in Optionals, credential \in Optionals :
       InitializeHttp_call(apn, apn_address, credential, credential)
  \/ \E url \in Urls, data \in Payloads : HttpPost_call(url, data)
  \/ \E in \in Inputs : Straight_step(in)

Spec == Init /\ [][Next]_vars

(***************************************************************************)
(* parse_serial_raw_data on its own: a static method, called without an    *)
(* instance on every text of a small alphabet.                             *)
(***************************************************************************)
TextAlphabet == {"a", "\r", "\n"}
Texts == UNION {[1..n -> TextAlphabet] : n \in 0..MaxTextLen}
RawData == {None} \cup {Some(t) : t \in Texts}

ParseInit ==
  /\ pc = "static"
  /\ module_power_state = FALSE
  /\ gps_power_state = FALSE
  /\ last_command = None
  /\ power_pin = 0
  /\ phys_power = FALSE
  /\ op = "none"
  /\ args = NoArgs
  /\ attempt = 0
  /\ responses = <<>>
  /\ trace = <<>>
  /\ outcome = NoOutcome
  /\ pre = [module_power_state |-> FALSE, gps_power_state |-> FALSE,
            phys_power |-> FALSE]
  /\ prev_toggle = [unforced |-> FALSE, module_before |-> FALSE]

ParseSerialRawData(data) ==
  /\ pc = "static"
  /\ op' = "parse_serial_raw_data"
  /\ args' = [NoArgs EXCEPT !.data = data]
  /\ outcome' = Ret(parse_serial_raw_data(data))
  /\ UNCHANGED <<pc, module_power_state, gps_power_state, last_command,
                 power_pin, phys_power, attempt, responses, trace, pre,
                 prev_toggle>>

ParseNext == \E data \in RawData : ParseSerialRawData(data)

ParseSpec == ParseInit /\ [][ParseNext]_vars

(***************************************************************************)
(* The draft driver of modem.py: its get_gps_data, which calls itself      *)
(* with default arguments after an attempt without a fix.                  *)
(***************************************************************************)
\* modem.py parse_serial_raw_data
modem_parse_serial_raw_data(data) ==
  IF ~data.some THEN data
  ELSE LET decoded_data == data.str
           middle == IF Count("\n", decoded_data) = 2
                     THEN Split(decoded_data, "\n")[2]
                     ELSE decoded_data
       IN Some(Remove("\n", Remove("\r", middle)))

\* modem.py read_uart_response
modem_read_uart_response(in) ==
  IF in.txdone
  THEN [events |-> << <<"txdone", in.txdone>>, <<"read", 0>> >>,
        res |-> IF in.raw.some /\ Len(in.raw.str) > 0
                THEN Ret(modem_parse_serial_raw_data(in.raw))
                ELSE Ret(None)]
  ELSE [events |-> << <<"txdone", in.txdone>> >>,
        res |-> Raise("Exception")]

\* modem.py write_command_and_return_response: the command is written as given
write_command_and_return_response(command, time_to_wait, in) ==
  LET rd == modem_read_uart_response(in)
  IN [last_command |-> Some(command),
      events |-> << <<"flush", 0>>, <<"write", command>>,
                    <<"sleep", time_to_wait>> >> \o rd.events,
      res |-> rd.res]

\* modem.py send_modem_gps_info_command: b'AT+CGNSINF\r\n', wait 10
send_modem_gps_info_command(in) ==
  write_command_and_return_response(AT_CGNSINF \o CR \o LF, ModemGpsInfoWait, in)

\* modem.py gps_coordinates_acquired
modem_gps_coordinates_acquired(command_response) ==
  IF ~command_response.some THEN Raise("TypeError")
  ELSE Ret(~Contains(FourCommas, command_response.str))

\* the arguments of the call at nesting depth d: those given to the
\* outermost call, the defaults in every call the method makes to itself
frame_attempts_number(d, given) == IF d = 0 THEN given ELSE ModemDefaultAttempts

frame_attempt_wait_time(d, given) == IF d = 0 THEN given ELSE ModemDefaultWait

\* the first iteration of the loop of one call of modem.py's get_gps_data:
\* res.kind = "none" when the method goes on to call itself
modem_get_gps_data_iteration(wait_time, in) ==
  LET sc == send_modem_gps_info_command(in)
      acquired == modem_gps_coordinates_acquired(sc.res.val)
      split_gps_command_response == Split(sc.res.val.str, ",")
  IN [last_command |-> sc.last_command,
      response |-> sc.res,
      events |-> IF sc.res.kind = "return" /\ acquired.kind = "return"
                    /\ ~acquired.val
                 THEN sc.events \o << <<"sleep", wait_time>> >>
                 ELSE sc.events,
      res |-> IF sc.res.kind = "raise" THEN sc.res
              ELSE IF acquired.kind = "raise" THEN acquired
              ELSE IF ~acquired.val THEN NoOutcome
              ELSE IF Len(split_gps_command_response) <= largest_index
                   THEN Raise("IndexError")
              ELSE Ret(fix_fields(split_gps_command_response))]

\* modem.py __init__ has run: no command is sent in it
ModemInit ==
  /\ pc = "modem_idle"
  /\ module_power_state = FALSE
  /\ gps_power_state = FALSE
  /\ last_command = None
  /\ power_pin = 0
  /\ phys_power = FALSE
  /\ op = "none"
  /\ args = NoArgs
  /\ attempt = 0
  /\ responses = <<>>
  /\ trace = <<>>
  /\ outcome = NoOutcome
  /\ pre = [module_power_state |-> FALSE, gps_power_state |-> FALSE,
            phys_power |-> FALSE]
  /\ prev_toggle = [unforced |-> FALSE, module_before |-> FALSE]

\* entry of the outermost call; attempt counts the calls the method has made
\* to itself
Modem_GetGpsData_call(n, wait_time) ==
  /\ pc = "modem_idle"
  /\ Enter("get_gps_data",
           [NoArgs EXCEPT !.attempts_number = n, !.attempt_wait_time = wait_time])
  /\ pc' = "modem_get_gps_data"
  /\ attempt' = 0
  /\ trace' = <<>>
  /\ responses' = <<>>
  /\ outcome' = NoOutcome
  /\ UNCHANGED <<module_power_state, gps_power_state, last_command, power_pin,
                 phys_power>>

\* the loop body of the innermost call: a fix or an error ends every call on
\* the stack; without a fix the method sleeps and calls itself, which the
\* interpreter refuses at its recursion limit
Modem_GetGpsData_attempt(in) ==
  /\ pc = "modem_get_gps_data"
  /\ frame_attempts_number(attempt, args.attempts_number) >= 1
  /\ LET it == modem_get_gps_data_iteration(
                 frame_attempt_wait_time(attempt, args.attempt_wait_time), in)
         recurse == it.res.kind = "none"
         refused == recurse /\ attempt >= MaxRecursionDepth
     IN /\ attempt' = IF recurse /\ ~refused THEN attempt + 1 ELSE attempt
        /\ last_command' = it.last_command
        /\ trace' = trace \o it.events
        /\ responses' = Append(responses, it.response)
        /\ outcome' = IF refused THEN Raise("RuntimeError") ELSE it.res
        /\ pc' = IF recurse /\ ~refused THEN "modem_get_gps_data"
                 ELSE "modem_idle"
        /\ UNCHANGED <<module_power_state, gps_power_state, power_pin,
                       phys_power, op, args, pre, prev_toggle>>

\* the raise after a loop that made no iteration
Modem_GetGpsData_exhausted ==
  /\ pc = "modem_get_gps_data"
  /\ frame_attempts_number(attempt, args.attempts_number) = 0
  /\ outcome' = Raise("GpsCoordinatesNotAcquired")
  /\ pc' = "modem_idle"
  /\ UNCHANGED <<module_power_state, gps_power_state, last_command, power_pin,
                 phys_power, op, args, attempt, responses, trace, pre,
                 prev_toggle>>

ModemNext ==
  \/ \E n \in 0..MaxAttempts, wait_time \in 0..MaxWait :
       Modem_GetGpsData_call(n, wait_time)
  \/ \E in \in Inputs : Modem_GetGpsData_attempt(in)
  \/ Modem_GetGpsData_exhausted

ModemSpec == ModemInit /\ [][ModemNext]_vars

(***************************************************************************)
(* Properties.                                                             *)
(***************************************************************************)
\* the AT+CGNSINF queries written to the UART in the call
Queries ==
  Cardinality({i \in DOMAIN trace :
                 trace[i][1] = "write" /\ trace[i][2] = AT_CGNSINF \o CR})

\* the retry waits of the call: the sleeps that follow a read
RetrySleeps ==
  {i \in DOMAIN trace : i > 1 /\ trace[i][1] = "sleep" /\ trace[i - 1][1] = "read"}

\* the settle waits of the call
SettleWaits ==
  Cardinality({i \in DOMAIN trace :
                 trace[i][1] = "sleep" /\ trace[i][2] = GpsSettleTime})

\* response i of the call is a line with four consecutive empty fields
NoFixAt(i) ==
  /\ responses[i].kind = "return"
  /\ responses[i].val.some
  /\ Contains(FourCommas, responses[i].val.str)

\* response i of the call is a well-formed fix line
FixAt(i) ==
  /\ responses[i].kind = "return"
  /\ responses[i].val.some
  /\ ~Contains(FourCommas, responses[i].val.str)
  /\ Len(Split(responses[i].val.str, ",")) >= 6

\* response i of the call is absent: the read was made and yielded nothing
AbsentAt(i) ==
  /\ responses[i].kind = "return"
  /\ ~responses[i].val.some

\* C1: when every GNSS status query of a get_gps_data call with
\* attempts_number N >= 1 got a no-fix line, the call never sends more than N
\* queries and it ends, after exactly N queries, by raising
\* GpsCoordinatesNotAcquired.
C1_ExhaustedAfterExactlyN ==
  (/\ op = "get_gps_data"
   /\ args.attempts_number >= 1
   /\ \A i \in DOMAIN responses : NoFixAt(i))
  => /\ Queries <= args.attempts_number
     /\ Queries = Len(responses)
     /\ pc = "idle" => /\ outcome.kind = "raise"
                       /\ outcome.exc = "GpsCoordinatesNotAcquired"
                       /\ Queries = args.attempts_number

C1_Witness ==
  /\ op = "get_gps_data"
  /\ pc = "idle"
  /\ args.attempts_number >= 2
  /\ Len(responses) = args.attempts_number
  /\ \A i \in DOMAIN responses : NoFixAt(i)
  /\ outcome.exc = "GpsCoordinatesNotAcquired"

\* C2: when the first k-1 queries of a get_gps_data call got no-fix lines and
\* the k-th a well-formed fix line, the call has returned the GpsData of the
\* fields 3, 4, 2 and 5 of that line, exactly k queries were sent, and the
\* last thing the call did is the read of the k-th reply: k-1 retry sleeps,
\* none after the fix.
C2_FixShortCircuits ==
  (/\ op = "get_gps_data"
   /\ Len(responses) >= 1
   /\ \A i \in 1..(Len(responses) - 1) : NoFixAt(i)
   /\ FixAt(Len(responses)))
  => LET k == Len(responses)
         fields == Split(responses[k].val.str, ",")
     IN /\ pc = "idle"
        /\ k <= args.attempts_number
        /\ outcome.kind = "return"
        /\ outcome.val.latitude = fields[4]
        /\ outcome.val.longitude = fields[5]
        /\ outcome.val.datetime = fields[3]
        /\ outcome.val.altitude = fields[6]
        /\ Queries = k
        /\ Cardinality(RetrySleeps) = k - 1
        /\ trace[Len(trace)][1] = "read"

C2_Witness ==
  /\ op = "get_gps_data"
  /\ Len(responses) = 3
  /\ NoFixAt(1) /\ NoFixAt(2) /\ FixAt(3)
  /\ outcome.kind = "return"
  /\ Queries = 3

\* C3 (as claimed): when a GNSS status query of get_gps_data got an absent
\* response, the attempt counts as no-fix: the call slept the retry interval
\* and went on, and if it ended it raised GpsCoordinatesNotAcquired and no
\* other error.
C3_AbsentIsNoFix ==
  (/\ op = "get_gps_data"
   /\ Len(responses) >= 1
   /\ AbsentAt(Len(responses)))
  => /\ trace[Len(trace)][1] = "sleep"
     /\ trace[Len(trace)][2] = args.attempt_wait_time
     /\ outcome.kind = "raise" => outcome.exc = "GpsCoordinatesNotAcquired"

\* C4 (as claimed): in strict mode, once the transport read has completed,
\* send_command_and_check_response returns True exactly when the expected
\* substring occurs in the response and raises IncorrectCommandOutput exactly
\* when it does not.
C4_StrictOutcome ==
  (/\ op = "send_command_and_check_response"
   /\ args.raise_exception
   /\ responses[1].kind = "return")
  => IF responses[1].val.some /\ Contains(OK, responses[1].val.str)
     THEN outcome.kind = "return" /\ outcome.val = TRUE
     ELSE outcome.kind = "raise" /\ outcome.exc = "IncorrectCommandOutput"

\* C5 (as claimed): in permissive mode, once the link reported transmission
\* complete, send_command_and_check_response returns True for every response
\* the read can yield, an absent one included.
C5_PermissiveReturnsTrue ==
  (/\ op \in {"send_command_and_check_response", "get_echo"}
   /\ ~args.raise_exception
   /\ responses[1].kind = "return")
  => outcome.kind = "return" /\ outcome.val = TRUE

\* C6: a read of the UART is made only right after the link reported
\* transmission complete; when the link reports not-done nothing is read, and
\* send_command and send_command_and_check_response end by raising that
\* transport error.
C6_ReadOnlyWhenTxDone ==
  /\ \A i \in DOMAIN trace :
       trace[i][1] = "read" =>
         i > 1 /\ trace[i - 1][1] = "txdone" /\ trace[i - 1][2] = TRUE
  /\ op \in {"send_command", "send_command_and_check_response"} =>
       \A i \in DOMAIN trace :
         (trace[i][1] = "txdone" /\ trace[i][2] = FALSE) =>
           /\ i = Len(trace)
           /\ outcome.kind = "raise"
           /\ outcome.exc = "Exception"

C6_Witness ==
  /\ op = "send_command_and_check_response"
  /\ trace[Len(trace)][1] = "txdone"
  /\ trace[Len(trace)][2] = FALSE
  /\ outcome.exc = "Exception"

\* C7 (as claimed): whenever construction completes, the remembered
\* module_power_state and the physical power state of the module are both off.
C7_ConstructionAgrees ==
  (op = "__init__" /\ pc = "idle") =>
    (module_power_state = FALSE /\ phys_power = FALSE)

\* C8: change_module_power_state(force_state=b) leaves module_power_state
\* equal to b, and the second of two consecutive calls without force_state
\* leaves module_power_state as it was before the first.
C8_TogglePairing ==
  op = "change_module_power_state" =>
    /\ args.force_state.given => module_power_state = args.force_state.state
    /\ (~args.force_state.given /\ prev_toggle.unforced) =>
         module_power_state = prev_toggle.module_before

C8_Witness ==
  /\ op = "change_module_power_state"
  /\ ~args.force_state.given
  /\ prev_toggle.unforced
  /\ prev_toggle.module_before = TRUE
  /\ module_power_state = TRUE

\* C9: after a set_gps_on call that returned, gps_power_state is true and the
\* call made the 30-unit settle wait once if gps_power_state was false at its
\* start and not at all if it was true; a call that found it true never waits.
C9_SettleOnlyWhenOff ==
  op = "set_gps_on" =>
    /\ outcome.kind = "return" =>
         /\ gps_power_state
         /\ SettleWaits = (IF pre.gps_power_state THEN 0 ELSE 1)
    /\ pre.gps_power_state => SettleWaits = 0

C9_Witness ==
  /\ op = "set_gps_on"
  /\ outcome.kind = "return"
  /\ pre.gps_power_state
  /\ SettleWaits = 0

\* C10 (as claimed): whenever a get_gps_data call has sent a GNSS status
\* query, gps_power_state is true.
C10_GnssOnBeforeQuery ==
  (op = "get_gps_data" /\ Queries > 0) => gps_power_state

\* the texts written to the UART in the call, in order
Writes ==
  LET at == {i \in DOMAIN trace : trace[i][1] = "write"}
  IN [k \in 1..Cardinality(at) |->
        trace[CHOOSE i \in at : Cardinality({j \in at : j <= i}) = k][2]]

\* C11 (as claimed): last_command is the command text of the most recent
\* send_command call on the instance, the echo probe of the construction
\* included, also when the read that followed failed: after a call that
\* wrote to the UART it is the text of the last write.
C11_LastCommandRecorded ==
  Len(Writes) >= 1 => last_command = Some(Writes[Len(Writes)])

\* C12: the UART writes of send_text_message are, in this order, AT+CMGF=1,
\* AT+CSCS="GSM" and AT+CMGS="<number>", each with the line terminator, and
\* the message body ending in the control byte 0x1A with no terminator after
\* it; a call that returned made all four and returned the response to the
\* fourth.
C12_SmsWrites ==
  op = "send_text_message" =>
    LET expected == << AT_CMGF_1 \o <<"\r">>,
                       AT_CSCS_GSM \o <<"\r">>,
                       AT_CMGS \o args.number \o <<"\"", "\r">>,
                       args.message \o <<"\r", "^Z">> >>
    IN /\ Len(Writes) <= 4
       /\ Writes = SubSeq(expected, 1, Len(Writes))
       /\ outcome.kind = "return" =>
            /\ Len(Writes) = 4
            /\ responses[Len(responses)].kind = "return"
            /\ outcome.val = responses[Len(responses)].val

C12_Witness ==
  /\ op = "send_text_message"
  /\ outcome.kind = "return"
  /\ outcome.val.some
  /\ Len(Writes) = 4

\* C13 (as claimed): an http_post that returned issued the POST action
\* AT+HTTPACTION=1 once, and AT+HTTPTERM as its last command, right after
\* AT+HTTPREAD with no command between the two.
C13_HttpPostOrder ==
  (op = "http_post" /\ outcome.kind = "return") =>
    /\ Cardinality({k \in DOMAIN Writes :
                      Writes[k] = AT_HTTPACTION_1 \o <<"\r">>}) = 1
    /\ Writes[Len(Writes)] = AT_HTTPTERM \o <<"\r">>
    /\ Writes[Len(Writes) - 1] = AT_HTTPREAD \o <<"\r">>

\* C14 (as claimed): when a UART read of get_text_messages yielded nothing,
\* the call neither returned nor raised: it slept the poll interval and goes
\* on polling.
C14_PollsWhileNothing ==
  (/\ op = "get_text_messages"
   /\ Len(responses) >= 1
   /\ AbsentAt(Len(responses)))
  => /\ pc = "get_text_messages"
     /\ outcome.kind = "none"
     /\ trace[Len(trace)][1] = "sleep"
     /\ trace[Len(trace)][2] = PollWait

\* C15: for a text with exactly two newlines parse_serial_raw_data returns
\* the segment between the first and the second newline with every carriage
\* return removed; for a text with any other number of newlines it returns
\* the whole text with every carriage return and newline removed.
C15_FramingExtraction ==
  (op = "parse_serial_raw_data" /\ args.data.some) =>
    LET text == args.data.str
        newlines == {i \in 1..Len(text) : text[i] = "\n"}
        first == CHOOSE i \in newlines : \A j \in newlines : i <= j
        second == CHOOSE i \in newlines : \A j \in newlines : j <= i
        no_cr(t) == SelectSeq(t, LAMBDA c : c # "\r")
        no_cr_lf(t) == SelectSeq(t, LAMBDA c : c # "\r" /\ c # "\n")
    IN /\ outcome.kind = "return"
       /\ outcome.val.some
       /\ outcome.val.str =
            IF Cardinality(newlines) = 2
            THEN no_cr(SubSeq(text, first + 1, second - 1))
            ELSE no_cr_lf(text)

C15_Witness ==
  /\ op = "parse_serial_raw_data"
  /\ args.data.some
  /\ Cardinality({i \in 1..Len(args.data.str) : args.data.str[i] = "\n"}) = 2
  /\ \E i \in 1..Len(args.data.str) : args.data.str[i] = "\r"
  /\ outcome.val.str = <<"a">>

\* the form YYYY-MM-DD HH:MM:SS of a timestamp field YYYYMMDDHHMMSS.sss
FormattedTimestamp(t) ==
  SubSeq(t, 1, 4) \o <<"-">> \o SubSeq(t, 5, 6) \o <<"-">> \o SubSeq(t, 7, 8)
  \o <<" ">> \o SubSeq(t, 9, 10) \o <<":">> \o SubSeq(t, 11, 12)
  \o <<":">> \o SubSeq(t, 13, 14)

\* C16 (as claimed): the GpsData that get_gps_data returns for a fix line has
\* the latitude, longitude and altitude of the comma-split fields 3, 4 and 5
\* unchanged, and as datetime the field 2 in the form YYYY-MM-DD HH:MM:SS.
C16_FixFieldsAndDatetime ==
  (op = "get_gps_data" /\ outcome.kind = "return") =>
    LET fields == Split(responses[Len(responses)].val.str, ",")
    IN /\ outcome.val.latitude = fields[4]
       /\ outcome.val.longitude = fields[5]
       /\ outcome.val.altitude = fields[6]
       /\ outcome.val.datetime = FormattedTimestamp(fields[3])

\* C17: in every call, each UART write comes right after a flush and is
\* followed by a wait and then the transmission-complete check; a later
\* write comes only after the read that follows that check.
C17_NoPipelining ==
  \A i \in DOMAIN trace :
    trace[i][1] = "write" =>
      /\ i > 1
      /\ trace[i - 1][1] = "flush"
      /\ i + 2 <= Len(trace)
      /\ trace[i + 1][1] = "sleep"
      /\ trace[i + 2][1] = "txdone"
      /\ \A j \in (i + 1)..Len(trace) :
           trace[j][1] = "write" => (i + 3 < j /\ trace[i + 3][1] = "read")

C17_Witness ==
  /\ op = "http_post"
  /\ outcome.kind = "return"
  /\ Len(Writes) = 8

\* C18: when the link reported not-done during an attempt of get_gps_data,
\* that attempt is the last: the call has ended with the transport error, not
\* with GpsCoordinatesNotAcquired, and no further GNSS status query was sent,
\* whatever attempts remain.
C18_TransportErrorNotRetried ==
  (/\ op = "get_gps_data"
   /\ \E i \in DOMAIN responses : responses[i].kind = "raise")
  => /\ \A i \in 1..(Len(responses) - 1) : responses[i].kind = "return"
     /\ pc = "idle"
     /\ outcome.kind = "raise"
     /\ outcome.exc = "Exception"
     /\ Queries = Len(responses)
     /\ trace[Len(trace)][1] = "txdone"
     /\ trace[Len(trace)][2] = FALSE

C18_Witness ==
  /\ op = "get_gps_data"
  /\ Len(responses) = 2
  /\ responses[2].kind = "raise"
  /\ args.attempts_number = 3
  /\ pc = "idle"
  /\ outcome.exc = "Exception"

OnePulse ==
  << <<"pin", 1>>, <<"sleep", PulseHold>>, <<"pin", 0>>,
     <<"sleep", PowerSettle>> >>

\* C20 (as claimed): every change_module_power_state call pulses the pin
\* exactly once, leaving it low, and module_power_state changes in the call,
\* with or without force_state, so that from agreement the remembered state
\* still matches the physical power state after the call.
C20_PulseAndStateTogether ==
  op = "change_module_power_state" =>
    /\ trace = OnePulse
    /\ power_pin = 0
    /\ module_power_state # pre.module_power_state
    /\ pre.module_power_state = pre.phys_power =>
         module_power_state = phys_power

\* C21: the retry interval of get_gps_data is constant: the call has slept
\* once after each no-fix attempt and never otherwise, every time exactly
\* attempt_wait_time, so after j no-fix attempts its retry waits add up to
\* j times attempt_wait_time.
C21_ConstantRetryInterval ==
  op = "get_gps_data" =>
    /\ Cardinality(RetrySleeps) =
         Cardinality({i \in DOMAIN responses : NoFixAt(i)})
    /\ \A i \in RetrySleeps : trace[i][2] = args.attempt_wait_time
    /\ \A i \in DOMAIN responses :
         NoFixAt(i) =>
           \E k \in RetrySleeps :
             Cardinality({j \in 1..k : trace[j][1] = "read"}) = i

C21_Witness ==
  /\ op = "get_gps_data"
  /\ args.attempt_wait_time = 1
  /\ Len(responses) = 3
  /\ NoFixAt(1)
  /\ NoFixAt(2)
  /\ Cardinality(RetrySleeps) >= 2

\* response i of the call has neither four consecutive empty fields nor the
\* six fields of the layout
ShortAt(i) ==
  /\ responses[i].kind = "return"
  /\ responses[i].val.some
  /\ ~Contains(FourCommas, responses[i].val.str)
  /\ Len(Split(responses[i].val.str, ",")) < 6

\* C22: a GNSS status response without ',,,,' and with fewer than 6
\* comma-separated fields ends get_gps_data at that attempt: no GpsData is
\* returned, no retry wait follows the read, and the call has raised an error
\* other than GpsCoordinatesNotAcquired.
C22_LayoutFailureIsNotNoFix ==
  (op = "get_gps_data" /\ \E i \in DOMAIN responses : ShortAt(i))
  => /\ ShortAt(Len(responses))
     /\ \A i \in 1..(Len(responses) - 1) : ~ShortAt(i)
     /\ pc = "idle"
     /\ outcome.kind = "raise"
     /\ outcome.exc # "GpsCoordinatesNotAcquired"
     /\ trace[Len(trace)][1] = "read"
     /\ Queries = Len(responses)

C22_Witness ==
  /\ op = "get_gps_data"
  /\ args.attempts_number = 3
  /\ Len(responses) = 2
  /\ NoFixAt(1)
  /\ ShortAt(2)
  /\ responses[2].val.str = OK
  /\ outcome.exc = "IndexError"

\* the decimal digits of a natural number, as str() gives them
RECURSIVE Decimal(_)
Decimal(n) ==
  IF n < 10 THEN <<Digits[n + 1]>>
  ELSE Decimal(n \div 10) \o <<Digits[(n % 10) + 1]>>

\* C23 (as claimed): the upload length that http_post declares in its
\* AT+HTTPDATA command is the byte length of the payload of the call.
C23_DeclaredLengthIsPayloadLength ==
  op = "http_post" =>
    \A k \in DOMAIN Writes :
      StartsWith(AT_HTTPDATA, Writes[k]) =>
        Writes[k] = AT_HTTPDATA \o Decimal(Len(to_bytes(args.data.str)))
                      \o <<",", "1", "0", "0", "0", "0", "\r">>

\* GpsData.__bool__ as all([latitude, longitude]) computes it for strings
Present(gps_data) ==
  Len(gps_data.latitude) > 0 /\ Len(gps_data.longitude) > 0

\* C24 (as claimed): every GpsData that get_gps_data returns is present: its
\* latitude and its longitude are both non-empty.
C24_ReturnedGpsDataPresent ==
  (op = "get_gps_data" /\ outcome.kind = "return") => Present(outcome.val)

\* the AT+CGNSINF queries that modem.py's get_gps_data wrote in the call
ModemQueries ==
  Cardinality({i \in DOMAIN trace :
                 trace[i][1] = "write"
                 /\ trace[i][2] = AT_CGNSINF \o <<"\r", "\n">>})

\* C25 (as claimed): one call of modem.py's get_gps_data with attempts_number
\* N >= 1 sends at most N GNSS status queries, and when no query got a fix
\* the call has ended by raising GpsCoordinatesNotAcquired.
C25_ModemBoundedRetry ==
  (op = "get_gps_data" /\ args.attempts_number >= 1) =>
    /\ ModemQueries <= args.attempts_number
    /\ (pc = "modem_idle" /\ \A i \in DOMAIN responses : NoFixAt(i)) =>
         (outcome.kind = "raise" /\ outcome.exc = "GpsCoordinatesNotAcquired")
====
